---- MODULE Spec2Model ----
(***************************************************************************)
(* Model of the scripts of assets/js: first the gallery lightbox of        *)
(* gallery.js with the mobile navigation of main.js, then the timelines    *)
(* and the validated form of timeline.js and the header scroll effect of   *)
(* main.js.                                                                *)
(*                                                                         *)
(* The gallery lightbox of assets/js/gallery.js: the Lightbox              *)
(* class (open / close / prev / next / trapFocus / updateImage / announce) *)
(* and initGallery, which collects the images of the gallery entries and   *)
(* wires the entries' click and keydown handlers to Lightbox.open.         *)
(*                                                                         *)
(* Indices are 0-based as in the JavaScript; a TLA+ sequence is 1-based,   *)
(* so images[currentIndex] of the code is images[currentIndex + 1] here.   *)
(* DOM elements are named by strings; "body" is document.activeElement     *)
(* when no element holds focus, "null" is the JavaScript null.             *)
(***************************************************************************)
EXTENDS Integers, Sequences, FiniteSets, TLC

\* ---------------------------------------------------------------- bounds
MaxEntries == 3
MaxDetached == 1
MaxTimelines == 2
MaxItems == 2
MaxAllClicks == 2
MaxFields == 2
MinLengthAttr == 3
MaxScrollY == 12

\* ------------------------------------------------------------ DOM elements
Entry(i) == "entry" \o ToString(i)

OverlayControls == {"close", "prev", "next"}

PageElements == {"pageLink"} \cup {Entry(i) : i \in 1..MaxEntries}

\* A gallery entry: whether it holds an <img>, and whether that img's alt
\* text is non-empty.
EntryKinds ==
    {e \in [img : BOOLEAN, alt : BOOLEAN] : (~e.img) => ~e.alt}

Galleries == UNION {[1..n -> EntryKinds] : n \in 1..MaxEntries}

\* The value of img.dataset.fullsize || img.src for the entry at position i,
\* and its img.alt when that is not empty.
ImgSrc(i) == "img" \o ToString(i) \o ".jpg"
AltText(i) == "Photo " \o ToString(i)

\* The {src, alt} object initGallery pushes for the entry at 1-based
\* position i.
ImageOf(g, i) ==
    [src |-> ImgSrc(i), alt |-> IF g[i].alt THEN AltText(i) ELSE ""]

RECURSIVE CollectFrom(_, _)
CollectFrom(g, i) ==
    IF i > Len(g) THEN << >>
    ELSE IF g[i].img THEN <<ImageOf(g, i)>> \o CollectFrom(g, i + 1)
    ELSE CollectFrom(g, i + 1)

\* The images array of initGallery: entries without an <img> are skipped.
CollectImages(g) == CollectFrom(g, 1)

\* The index the entry's handlers pass to open: forEach's index, which
\* counts every .gallery-item, 0-based.
HandlerIndex(i) == i - 1

\* Entries that got handlers and tabindex=0.
ActiveEntries(g) == {i \in 1..Len(g) : g[i].img}

VARIABLES
    gallery,                    \* the .gallery-item entries of the page
    images,                     \* this.images
    currentIndex,               \* this.currentIndex
    isOpen,                     \* this.isOpen
    focusedElementBeforeOpen,   \* this.focusedElementBeforeOpen
    lbActive,                   \* lightbox.classList.contains('active')
    bodyOverflow,               \* document.body.style.overflow
    activeElement,              \* document.activeElement
    prevDisplay,                \* prevBtn.style.display
    nextDisplay,                \* nextBtn.style.display
    lightboxImageSrc,           \* lightboxImage.src
    lightboxImageAlt,           \* lightboxImage.alt
    lightboxCaption,            \* lightboxCaption.textContent
    liveRegionCount,            \* number of #lightbox-live-region elements
    liveRegionText,             \* liveRegion.textContent
    detached,                   \* page elements removed from the document
    focusAtOpen,                \* element that held focus when open was last entered
    call,                       \* the Lightbox operation the last step ran
    ready,                      \* "loading" until the script's initGallery() has run
    overlayCount,               \* number of #lightbox elements in the document
    navInstalled,               \* main.js found .nav-toggle and .nav-menu
    navExpanded,                \* navToggle's aria-expanded attribute
    navActive,                  \* navMenu.classList.contains('active')
    pending,                    \* document-level handler still to run for the event
    announced,                  \* the last step called announce()
    hist,                       \* the event of the last step and what preceded it
    timeline,                   \* the .timeline containers of timeline.js and their buttons
    form,                       \* the form[data-validate] of timeline.js's FormValidator
    header                      \* the .site-header of main.js and the scroll throttle

lightboxVars == <<gallery, images, currentIndex, isOpen, focusedElementBeforeOpen,
          lbActive, bodyOverflow, activeElement, prevDisplay, nextDisplay,
          lightboxImageSrc, lightboxImageAlt, lightboxCaption,
          liveRegionCount, liveRegionText, detached, focusAtOpen, call,
          ready, overlayCount, navInstalled, navExpanded, navActive, pending,
          announced, hist>>

\* The state of the other components: the timelines, the validated form and
\* the header's scroll effect.
widgetVars == <<timeline, form, header>>

vars == <<lightboxVars, widgetVars>>

pageVars == <<ready, overlayCount, navInstalled, navExpanded, navActive>>

renderVars == <<lightboxImageSrc, lightboxImageAlt, lightboxCaption,
                liveRegionCount, liveRegionText>>

\* The record of the last step: the operation, open's arguments, whether
\* the viewer was open when it started, the gallery entry activated (0 when
\* none), the element close() called focus() on ("none" when it made no
\* call), and the run of consecutive forward Tab inputs made while open
\* (the element it started on, and its length).
Call(op, imgs, k, entry, focusCall, tabStart, tabCount) ==
    [op |-> op, items |-> imgs, startIndex |-> k, wasOpen |-> isOpen,
     entry |-> entry, focusCall |-> focusCall,
     tabStart |-> tabStart, tabCount |-> tabCount]
NoArgs(op) == Call(op, << >>, 0, 0, "none", "none", 0)

\* An event is dispatched once the page is initialised and the handlers of
\* the previous event have all run.
Idle == ready = "done" /\ pending = "none"

\* A run of consecutive calls of the same navigation operation goes on
\* until it has as many calls as there are images.
RunContinues(op) ==
    /\ op # "none"
    /\ hist.runOp = op
    /\ hist.runCount \in 1..(Len(images) - 1)

\* The record of an event: its name, currentIndex and the previous button's
\* display before it, and the run of navigation calls it belongs to (the
\* index the run started from, and its length). `doc` names the handler
\* main.js bound on the document for the event ("none" when it has none or
\* does nothing for it), which runs after the target's own handler.
After(event, op, doc) ==
    /\ hist' = [event |-> event, index |-> currentIndex, nav |-> prevDisplay,
                runOp |-> op,
                runStart |-> IF RunContinues(op) THEN hist.runStart
                             ELSE currentIndex,
                runCount |-> IF op = "none" THEN 0
                             ELSE IF RunContinues(op) THEN hist.runCount + 1
                             ELSE 1]
    /\ pending' = IF navInstalled THEN doc ELSE "none"
    /\ UNCHANGED <<pageVars, widgetVars>>

\* --------------------------------------------------------------- focus
\* element.focus() takes effect on an element that is attached, is not
\* display:none and is focusable; otherwise focus stays where it is.
Focusable(el, det, pd, nd) ==
    /\ el \notin {"body", "null"}
    /\ el \notin det
    /\ (el = "prev" => pd # "none")
    /\ (el = "next" => nd # "none")

\* A focus() call that is lost: focus stays where it is.
FocusResultDropped(el, cur, det, pd, nd) == cur

FocusResult(el, cur, det, pd, nd) ==
    IF Focusable(el, det, pd, nd) THEN el ELSE cur

\* The document's sequential focus order: the header's menu button (on a
\* page with the mobile navigation), the page link, the gallery
\* entries made focusable by initGallery, then the overlay's buttons in
\* markup order (the overlay is appended to the body; it is shown by the
\* class 'active').
RECURSIVE EntrySeq(_, _)
EntrySeq(g, i) ==
    IF i > Len(g) THEN << >>
    ELSE IF g[i].img THEN <<Entry(i)>> \o EntrySeq(g, i + 1)
    ELSE EntrySeq(g, i + 1)

DocumentOrder(g) ==
    (IF navInstalled THEN <<"navToggle">> ELSE << >>)
    \o <<"pageLink">> \o EntrySeq(g, 1) \o <<"close", "prev", "next">>

TabOrder ==
    LET IsTabbable(el) ==
            /\ Focusable(el, detached, prevDisplay, nextDisplay)
            /\ (el \in OverlayControls => lbActive)
    IN SelectSeq(DocumentOrder(gallery), IsTabbable)

PositionIn(seq, el) ==
    IF \E i \in 1..Len(seq) : seq[i] = el
    THEN CHOOSE i \in 1..Len(seq) : seq[i] = el
    ELSE 0

\* The browser's default action for Tab / Shift+Tab.
DefaultTab(shift) ==
    LET order == TabOrder
        n == Len(order)
        p == PositionIn(order, activeElement)
    IN IF n = 0 THEN "body"
       ELSE IF shift
            THEN (IF p <= 1 THEN order[n] ELSE order[p - 1])
            ELSE (IF p = 0 \/ p = n THEN order[1] ELSE order[p + 1])

\* ------------------------------------------------------------- Lightbox
FocusableElements == <<"close", "prev", "next">>

\* An announce() that adds the message to the region's text.
AnnouncementAppended(imgs, idx) ==
    liveRegionText \o "Image " \o ToString(idx + 1) \o " of "
    \o ToString(Len(imgs)) \o ": "
    \o (IF imgs[idx + 1].alt # "" THEN imgs[idx + 1].alt ELSE "No description")

\* The message updateImage() hands to announce(), which becomes the live
\* region's textContent.
Announcement(imgs, idx) ==
    "Image " \o ToString(idx + 1) \o " of " \o ToString(Len(imgs)) \o ": "
    \o (IF imgs[idx + 1].alt # "" THEN imgs[idx + 1].alt ELSE "No description")

\* A label that counts from 0.
ImageLabelZeroBased(imgs, idx) ==
    IF imgs[idx + 1].alt # "" THEN imgs[idx + 1].alt
    ELSE "Image " \o ToString(idx) \o " of " \o ToString(Len(imgs))

\* lightboxImage.alt: image.alt, or the position when it is empty.
ImageLabel(imgs, idx) ==
    IF imgs[idx + 1].alt # "" THEN imgs[idx + 1].alt
    ELSE "Image " \o ToString(idx + 1) \o " of " \o ToString(Len(imgs))

\* An announce() that appends a region on every call.
LiveRegionsAppended(n) == n + 1

\* announce(): the number of live regions after it; one is created only
\* when getElementById finds none.
LiveRegionsAfterAnnounce(n) == IF n = 0 THEN 1 ELSE n

\* updateImage(): returns when images[currentIndex] is undefined.
UpdateImage(imgs, idx) ==
    IF idx \notin 0..(Len(imgs) - 1)
    THEN /\ UNCHANGED renderVars
         /\ announced' = FALSE
    ELSE /\ lightboxImageSrc' = imgs[idx + 1].src
         /\ lightboxImageAlt' = ImageLabel(imgs, idx)
         /\ lightboxCaption' = imgs[idx + 1].alt
         /\ liveRegionCount' = LiveRegionsAfterAnnounce(liveRegionCount)
         /\ liveRegionText' = Announcement(imgs, idx)
         /\ announced' = TRUE

\* Buttons shown whatever the number of images.
NavDisplayAlwaysShown(imgs) == "flex"

NavDisplay(imgs) == IF Len(imgs) <= 1 THEN "none" ELSE "flex"

\* An open() that leaves the body's overflow style empty.
ScrollLockMissing == ""

\* The overflow style open() gives the body.
ScrollLock == "hidden"

\* open(images, startIndex), entered while `focus` is document.activeElement;
\* `entry` is the gallery entry whose handler made the call (0 when none).
LbOpen(imgs, startIndex, focus, entry) ==
    /\ images' = imgs
    /\ currentIndex' = startIndex
    /\ focusedElementBeforeOpen' = focus
    /\ UpdateImage(imgs, startIndex)
    /\ lbActive' = TRUE
    /\ isOpen' = TRUE
    /\ bodyOverflow' = ScrollLock
    /\ activeElement' = FocusResult("close", focus, detached,
                                    prevDisplay, nextDisplay)
    /\ prevDisplay' = NavDisplay(imgs)
    /\ nextDisplay' = NavDisplay(imgs)
    /\ focusAtOpen' = focus
    /\ call' = Call("open", imgs, startIndex, entry, "none", "none", 0)
    /\ UNCHANGED <<gallery, detached>>

\* A close() that never restores focus.
CloseFocusCallNever == "none"

\* A close() that calls focus() without testing the captured reference.
CloseFocusCallUnguarded == focusedElementBeforeOpen

\* The element close() calls focus() on: the captured element when it is
\* truthy.
CloseFocusCall ==
    IF focusedElementBeforeOpen # "null" THEN focusedElementBeforeOpen ELSE "none"

\* close()
LbClose ==
    /\ lbActive' = FALSE
    /\ isOpen' = FALSE
    /\ bodyOverflow' = ""
    /\ activeElement' =
           IF CloseFocusCall # "none"
           THEN FocusResult(CloseFocusCall, activeElement, detached,
                            prevDisplay, nextDisplay)
           ELSE activeElement
    /\ call' = Call("close", << >>, 0, 0, CloseFocusCall, "none", 0)
    /\ announced' = FALSE
    /\ UNCHANGED <<gallery, images, currentIndex, focusedElementBeforeOpen,
                   prevDisplay, nextDisplay, renderVars, detached, focusAtOpen>>

\* A handler that returns at its guard.
Ignored(op) ==
    /\ call' = NoArgs(op)
    /\ announced' = FALSE
    /\ UNCHANGED <<gallery, images, currentIndex, isOpen,
                   focusedElementBeforeOpen, lbActive, bodyOverflow,
                   activeElement, prevDisplay, nextDisplay, renderVars,
                   detached, focusAtOpen>>

\* A decrement without the wraparound.
PrevIndexNoWrap(idx, n) == idx - 1

PrevIndex(idx, n) == (idx - 1 + n) % n

\* A guard that lets a single image through.
NavDisabledWhenEmpty(imgs) == Len(imgs) < 1

\* The guard of prev() and next(): nothing to navigate.
NavDisabled(imgs) == Len(imgs) <= 1

\* An increment without the wraparound.
NextIndexNoWrap(idx, n) == idx + 1

NextIndex(idx, n) == (idx + 1) % n

\* prev()
LbPrev ==
    IF NavDisabled(images) THEN Ignored("prev")
    ELSE /\ currentIndex' = PrevIndex(currentIndex, Len(images))
         /\ UpdateImage(images, currentIndex')
         /\ call' = NoArgs("prev")
         /\ UNCHANGED <<gallery, images, isOpen, focusedElementBeforeOpen,
                        lbActive, bodyOverflow, activeElement, prevDisplay,
                        nextDisplay, detached, focusAtOpen>>

\* next()
LbNext ==
    IF NavDisabled(images) THEN Ignored("next")
    ELSE /\ currentIndex' = NextIndex(currentIndex, Len(images))
         /\ UpdateImage(images, currentIndex')
         /\ call' = NoArgs("next")
         /\ UNCHANGED <<gallery, images, isOpen, focusedElementBeforeOpen,
                        lbActive, bodyOverflow, activeElement, prevDisplay,
                        nextDisplay, detached, focusAtOpen>>

\* trapFocus(e): the element focus() is called on after preventDefault, or
\* "null" when the event is left to the browser.
TrapFocus(shift) ==
    LET firstFocusable == FocusableElements[1]
        lastFocusable == FocusableElements[Len(FocusableElements)]
    IN IF shift
       THEN (IF activeElement = firstFocusable THEN lastFocusable ELSE "null")
       ELSE (IF activeElement = lastFocusable THEN firstFocusable ELSE "null")

\* Where a Tab keydown leaves focus: handleKeydown runs trapFocus only while
\* open; the browser's default action follows unless it was prevented.
TabResult(shift) ==
    IF isOpen /\ TrapFocus(shift) # "null"
    THEN FocusResult(TrapFocus(shift), activeElement, detached,
                     prevDisplay, nextDisplay)
    ELSE DefaultTab(shift)

\* Bookkeeping of a run of forward Tab inputs made while open; a run ends
\* after as many inputs as the overlay has buttons. A Shift+Tab input
\* records the element it started on.
TabRunContinues ==
    /\ call.op = "tab"
    /\ call.tabCount \in 1..(Len(FocusableElements) - 1)

TabKey(shift) ==
    /\ activeElement' = TabResult(shift)
    /\ call' =
         IF shift THEN Call("shiftTab", << >>, 0, 0, "none", activeElement, 0)
         ELSE IF ~isOpen THEN NoArgs("tab")
         ELSE IF TabRunContinues
              THEN Call("tab", << >>, 0, 0, "none", call.tabStart, call.tabCount + 1)
              ELSE Call("tab", << >>, 0, 0, "none", activeElement, 1)
    /\ announced' = FALSE
    /\ UNCHANGED <<gallery, images, currentIndex, isOpen,
                   focusedElementBeforeOpen, lbActive, bodyOverflow,
                   prevDisplay, nextDisplay, renderVars, detached, focusAtOpen>>

\* --------------------------------------------------------------- events
\* Each event runs the handler of its target and leaves the document-level
\* handler of main.js (closeNav for a click outside the menu and for Escape)
\* to run next.

\* click on the close button
ClickClose == Idle /\ LbClose /\ After("clickClose", "none", "closeNav")

\* click on the previous / next button
ClickPrev == Idle /\ LbPrev /\ After("clickPrev", "prev", "closeNav")
ClickNext == Idle /\ LbNext /\ After("clickNext", "next", "closeNav")

\* click whose target is the .lightbox element itself
ClickScrim == Idle /\ LbClose /\ After("clickScrim", "none", "closeNav")

\* A click inside the overlay that closes it whatever its target.
ClickContentCloses == Idle /\ LbClose /\ After("clickContent", "none", "closeNav")

\* click whose target is inside .lightbox-content (the image, the caption):
\* the overlay's click handler finds e.target # this.lightbox.
ClickContent == Idle /\ Ignored("click") /\ After("clickContent", "none", "closeNav")

\* keydown on the document
KeyEscape ==
    /\ Idle
    /\ IF isOpen THEN LbClose ELSE Ignored("keydown")
    /\ After("escape", "none", "closeNav")

KeyArrowLeft ==
    /\ Idle
    /\ IF isOpen THEN LbPrev ELSE Ignored("keydown")
    /\ After("arrowLeft", IF isOpen THEN "prev" ELSE "none", "none")

KeyArrowRight ==
    /\ Idle
    /\ IF isOpen THEN LbNext ELSE Ignored("keydown")
    /\ After("arrowRight", IF isOpen THEN "next" ELSE "none", "none")

KeyTab == Idle /\ TabKey(FALSE) /\ After("tab", "none", "none")
KeyShiftTab == Idle /\ TabKey(TRUE) /\ After("shiftTab", "none", "none")

\* Pointer activation of a gallery entry: the entry (made focusable with
\* tabindex=0) takes focus, then its click handler runs open(images, index).
ClickEntry ==
    \E i \in ActiveEntries(gallery) :
        /\ Idle
        /\ Entry(i) \notin detached
        /\ LbOpen(CollectImages(gallery), HandlerIndex(i), Entry(i), i)
        /\ After("clickEntry", "none", "closeNav")

\* Enter or Space on the focused gallery entry.
KeyEntry ==
    \E i \in ActiveEntries(gallery) :
        /\ Idle
        /\ activeElement = Entry(i)
        /\ LbOpen(CollectImages(gallery), HandlerIndex(i), activeElement, i)
        /\ After("keyEntry", "none", "none")

\* The host page removes one of its elements from the document; an element
\* that held focus loses it to the body.
Detach ==
    \E el \in {"pageLink"} \cup {Entry(i) : i \in ActiveEntries(gallery)} :
        /\ Idle
        /\ el \notin detached
        /\ Cardinality(detached) < MaxDetached
        /\ detached' = detached \cup {el}
        /\ activeElement' = IF activeElement = el THEN "body" ELSE activeElement
        /\ call' = NoArgs("detach")
        /\ announced' = FALSE
        /\ After("detach", "none", "none")
        /\ UNCHANGED <<gallery, images, currentIndex, isOpen,
                       focusedElementBeforeOpen, lbActive, bodyOverflow,
                       prevDisplay, nextDisplay, renderVars, focusAtOpen>>

\* Lightbox.open called directly: the item lists are the images of the
\* galleries whose every entry holds an <img>, and the empty list.
ItemLists ==
    {CollectImages(g) : g \in {h \in Galleries : \A i \in 1..Len(h) : h[i].img}}
    \cup {<< >>}

NonEmptyItemLists == {l \in ItemLists : l # << >>}

OpenValid ==
    \E imgs \in NonEmptyItemLists : \E k \in 0..(Len(imgs) - 1) :
        Idle /\ LbOpen(imgs, k, activeElement, 0) /\ After("call", "none", "none")

OpenAny ==
    \E imgs \in ItemLists : \E k \in -1..MaxEntries :
        Idle /\ LbOpen(imgs, k, activeElement, 0) /\ After("call", "none", "none")

\* ------------------------------------------------------------ page load
\* The DOMContentLoaded listener gallery.js registers while the document is
\* loading: initGallery() constructs the one Lightbox, whose constructor
\* appends the overlay to the body.
DomReady ==
    /\ ready = "loading"
    /\ ready' = "done"
    /\ overlayCount' = overlayCount + 1
    /\ UNCHANGED <<gallery, images, currentIndex, isOpen,
                   focusedElementBeforeOpen, lbActive, bodyOverflow,
                   activeElement, prevDisplay, nextDisplay, renderVars,
                   detached, focusAtOpen, call, navInstalled, navExpanded,
                   navActive, pending, announced, hist, widgetVars>>

\* ------------------------------------------------------ mobile navigation
\* closeNav() of main.js
CloseNav ==
    /\ navExpanded' = "false"
    /\ navActive' = FALSE
    /\ bodyOverflow' = ""

\* The document-level listeners of main.js, reached by a click outside the
\* menu and its button and by an Escape keydown after the target's own
\* handler has run: both call closeNav().
DocumentHandler ==
    /\ ready = "done"
    /\ pending = "closeNav"
    /\ CloseNav
    /\ pending' = "none"
    /\ UNCHANGED <<gallery, images, currentIndex, isOpen,
                   focusedElementBeforeOpen, lbActive, activeElement,
                   prevDisplay, nextDisplay, renderVars, detached,
                   focusAtOpen, call, ready, overlayCount, navInstalled,
                   announced, hist, widgetVars>>

\* A toggleNav() that leaves the body's overflow style alone.
ToggleNavKeepsScroll ==
    /\ navExpanded' = (IF navExpanded = "true" THEN "false" ELSE "true")
    /\ navActive' = ~navActive
    /\ bodyOverflow' = bodyOverflow

\* toggleNav() of main.js
ToggleNav ==
    /\ navExpanded' = (IF navExpanded = "true" THEN "false" ELSE "true")
    /\ navActive' = ~navActive
    /\ bodyOverflow' = (IF navActive' THEN "hidden" ELSE "")

\* click on the menu button: toggleNav() runs; the document's click listener
\* finds the target inside navToggle and does nothing. Whether a clicked
\* button takes focus depends on the browser.
ClickNavToggle ==
    /\ Idle
    /\ navInstalled
    /\ ToggleNav
    /\ activeElement' \in {"navToggle", activeElement}
    /\ call' = NoArgs("toggleNav")
    /\ announced' = FALSE
    /\ hist' = [event |-> "clickNavToggle", index |-> currentIndex,
                nav |-> prevDisplay, runOp |-> "none",
                runStart |-> currentIndex, runCount |-> 0]
    /\ UNCHANGED <<gallery, images, currentIndex, isOpen,
                   focusedElementBeforeOpen, lbActive, prevDisplay,
                   nextDisplay, renderVars, detached, focusAtOpen, ready,
                   overlayCount, navInstalled, pending, widgetVars>>

\* ----------------------------------------------------------------- Init
\* State after new Lightbox().
InitLightbox ==
    /\ images = << >>
    /\ currentIndex = 0
    /\ isOpen = FALSE
    /\ focusedElementBeforeOpen = "null"
    /\ lbActive = FALSE
    /\ bodyOverflow = ""
    /\ activeElement = "body"
    /\ prevDisplay = ""
    /\ nextDisplay = ""
    /\ lightboxImageSrc = ""
    /\ lightboxImageAlt = ""
    /\ lightboxCaption = ""
    /\ liveRegionCount = 0
    /\ liveRegionText = ""
    /\ detached = {}
    /\ focusAtOpen = "null"
    /\ call = [op |-> "init", items |-> << >>, startIndex |-> 0,
               wasOpen |-> FALSE, entry |-> 0, focusCall |-> "none",
               tabStart |-> "none", tabCount |-> 0]
    /\ announced = FALSE
    /\ hist = [event |-> "init", index |-> 0, nav |-> "", runOp |-> "none",
               runStart |-> 0, runCount |-> 0]
    /\ pending = "none"

\* A page without timelines, without a validated form and without a
\* .site-header: timeline.js and the header effect of main.js install
\* nothing.
NoWidgets ==
    /\ timeline = "none"
    /\ form = "none"
    /\ header = "none"

\* The script has run initGallery() on a page without the mobile navigation.
GalleryOnly ==
    /\ ready = "done"
    /\ overlayCount = 1
    /\ navInstalled = FALSE
    /\ navExpanded = "false"
    /\ navActive = FALSE

\* A gallery page after initGallery().
Init ==
    /\ gallery \in Galleries
    /\ InitLightbox
    /\ NoWidgets
    /\ GalleryOnly

\* A gallery page whose images carry no alt text (alt text reaches only the
\* rendered image, caption and announcement, never focus or attachment).
InitHost ==
    /\ gallery \in {g \in Galleries : \A i \in 1..Len(g) : ~g[i].alt}
    /\ InitLightbox
    /\ NoWidgets
    /\ GalleryOnly

\* A page whose gallery has no entries: the Lightbox driven by direct calls.
InitDirect ==
    /\ gallery = << >>
    /\ InitLightbox
    /\ NoWidgets
    /\ GalleryOnly

\* A gallery page whose scripts have been loaded while the document was
\* still loading: nothing is constructed before DOMContentLoaded.
InitLoad ==
    /\ gallery \in Galleries
    /\ InitLightbox
    /\ NoWidgets
    /\ ready = "loading"
    /\ overlayCount = 0
    /\ navInstalled = FALSE
    /\ navExpanded = "false"
    /\ navActive = FALSE

\* A gallery page that also carries the header's mobile navigation, after
\* both scripts have initialised, the menu closed; every gallery entry holds
\* a described image.
InitPage ==
    /\ gallery \in {g \in Galleries : \A i \in 1..Len(g) : g[i].img /\ g[i].alt}
    /\ InitLightbox
    /\ NoWidgets
    /\ ready = "done"
    /\ overlayCount = 1
    /\ navInstalled = TRUE
    /\ navExpanded = "false"
    /\ navActive = FALSE

Controls ==
    \/ ClickClose
    \/ ClickScrim
    \/ ClickContent
    \/ ClickPrev
    \/ ClickNext
    \/ KeyEscape
    \/ KeyArrowLeft
    \/ KeyArrowRight
    \/ KeyTab
    \/ KeyShiftTab

Next ==
    \/ ClickEntry
    \/ KeyEntry
    \/ Controls

NextHost ==
    \/ Next
    \/ Detach

NextContract ==
    \/ OpenValid
    \/ Controls

NextDirect ==
    \/ OpenAny
    \/ Controls

NextLoad ==
    \/ DomReady
    \/ Next

NextPage ==
    \/ Next
    \/ ClickNavToggle
    \/ DocumentHandler

\* The gallery page under user input.
Spec == Init /\ [][Next]_vars

\* The gallery page from script load on.
SpecLoad == InitLoad /\ [][NextLoad]_vars

\* The gallery page with the mobile navigation of main.js installed.
SpecPage == InitPage /\ [][NextPage]_vars

\* The gallery page under user input, with the host page removing elements.
SpecHost == InitHost /\ [][NextHost]_vars

\* The Lightbox under direct calls that meet open's precondition.
SpecContract == InitDirect /\ [][NextContract]_vars

\* The Lightbox under direct calls with any arguments.
SpecDirect == InitDirect /\ [][NextDirect]_vars

\* -------------------------------------------------------------- timeline
\* timeline.js, Timeline: a page holds .timeline containers, each with
\* .timeline-item elements; an item is a record of what the code reads and
\* writes on it:
\*   header, content  whether .timeline-header / .timeline-content exist
\*   startActive      whether the markup gave the content the class 'active'
\*   ariaExpanded     the header's aria-expanded ("null" when absent)
\*   ariaHidden       the content's aria-hidden ("null" when absent)
\*   active           content.classList.contains('active')
\*   listeners        click (and keydown) listeners added to the header

\* An item as the markup gives it.
MarkupItem(hasContent, isActive) ==
    [header |-> TRUE, content |-> hasContent, startActive |-> isActive,
     ariaExpanded |-> "null", ariaHidden |-> "null", active |-> isActive,
     listeners |-> 0]

\* The markups of one timeline with n items: every item complete and
\* collapsed ("plain"), the first item given the class 'active'
\* ("firstOpen"), or the last item without a .timeline-content ("bare").
TimelineMarkup(kind, n) ==
    [i \in 1..n |->
        MarkupItem(~(kind = "bare" /\ i = n), kind = "firstOpen" /\ i = 1)]

MarkupKinds == {"plain", "firstOpen", "bare"}

\* The pages: 1..MaxTimelines timelines of 1..MaxItems items each.
TimelinePages ==
    {[t \in 1..nT |-> TimelineMarkup(kind, n)] :
        nT \in 1..MaxTimelines, n \in 1..MaxItems, kind \in MarkupKinds}

\* init() on one item: nothing without a header and a content; otherwise
\* the ARIA attributes are (re)set to collapsed and one more click listener
\* and keydown listener are added to the header. The class is not touched.
InitItem(it) ==
    IF ~it.header \/ ~it.content THEN it
    ELSE [it EXCEPT !.ariaExpanded = "false", !.ariaHidden = "true",
                    !.listeners = it.listeners + 1]

\* new Timeline(container): init() over the container's items.
NewTimeline(items) == [i \in DOMAIN items |-> InitItem(items[i])]

\* A toggle that leaves the content's aria-hidden as it is.
ToggleItemKeepsHidden(it) ==
    IF ~it.header \/ ~it.content THEN it
    ELSE LET isExpanded == it.ariaExpanded = "true"
         IN [it EXCEPT !.ariaExpanded = IF isExpanded THEN "false" ELSE "true",
                       !.active = ~it.active]

\* toggle(item)
ToggleItem(it) ==
    IF ~it.header \/ ~it.content THEN it
    ELSE LET isExpanded == it.ariaExpanded = "true"
         IN [it EXCEPT !.ariaExpanded = IF isExpanded THEN "false" ELSE "true",
                       !.ariaHidden = IF isExpanded THEN "true" ELSE "false",
                       !.active = ~it.active]

\* The listeners of one header run in turn on one click: k calls of toggle.
RECURSIVE ToggleTimes(_, _)
ToggleTimes(it, k) == IF k = 0 THEN it ELSE ToggleTimes(ToggleItem(it), k - 1)

\* expand(item)
ExpandItem(it) ==
    IF ~it.header \/ ~it.content THEN it
    ELSE [it EXCEPT !.ariaExpanded = "true", !.ariaHidden = "false",
                    !.active = TRUE]

\* collapse(item)
CollapseItem(it) ==
    IF ~it.header \/ ~it.content THEN it
    ELSE [it EXCEPT !.ariaExpanded = "false", !.ariaHidden = "true",
                    !.active = FALSE]

\* The text announceChange() leaves in #timeline-live-region after the last
\* of the toggles of one click; the item's title is named by its position.
TimelineAnnouncement(t, i, it) ==
    "Item " \o ToString(t) \o "." \o ToString(i) \o " "
    \o (IF it.ariaExpanded = "true" THEN "expanded" ELSE "collapsed")

\* initTimelines(): one Timeline per container; when the page has an
\* expand-all or a collapse-all button, a further Timeline is constructed on
\* the first container before the buttons are wired.
InitTimelines ==
    /\ timeline.ready = "loading"
    /\ LET constructed == [t \in DOMAIN timeline.items |->
                              NewTimeline(timeline.items[t])]
           again == IF timeline.expandAllBtn \/ timeline.collapseAllBtn
                    THEN [constructed EXCEPT ![1] = NewTimeline(constructed[1])]
                    ELSE constructed
       IN timeline' = [timeline EXCEPT !.ready = "done", !.items = again,
                                       !.last = [event |-> "init", t |-> 0, i |-> 0]]
    /\ UNCHANGED <<lightboxVars, form, header>>

\* One activation of the header of item i of timeline t: each listener the
\* header carries calls toggle(item).
Activate(t, i) ==
    LET it == timeline.items[t][i]
        after == ToggleTimes(it, it.listeners)
    IN /\ timeline.ready = "done"
       /\ timeline' =
              [timeline EXCEPT !.items[t][i] = after,
                               !.liveText = IF it.listeners > 0
                                            THEN TimelineAnnouncement(t, i, after)
                                            ELSE timeline.liveText,
                               !.last = [event |-> "activate", t |-> t, i |-> i]]
       /\ UNCHANGED <<lightboxVars, form, header>>

\* click on a .timeline-header
ClickHeader ==
    \E t \in DOMAIN timeline.items : \E i \in DOMAIN timeline.items[t] :
        Activate(t, i)

\* Enter or Space on a focused .timeline-header: the keydown listener calls
\* toggle as the click listener does.
KeyHeader ==
    \E t \in DOMAIN timeline.items : \E i \in DOMAIN timeline.items[t] :
        /\ timeline.items[t][i].listeners > 0
        /\ Activate(t, i)

\* click on [data-timeline-expand-all]: a new Timeline on every container,
\* then expandAll() on it.
ClickExpandAll ==
    /\ timeline.ready = "done"
    /\ timeline.expandAllBtn
    /\ timeline.allClicks < MaxAllClicks
    /\ timeline' =
           [timeline EXCEPT
               !.items = [t \in DOMAIN timeline.items |->
                             [i \in DOMAIN timeline.items[t] |->
                                 ExpandItem(NewTimeline(timeline.items[t])[i])]],
               !.allClicks = timeline.allClicks + 1,
               !.last = [event |-> "expandAll", t |-> 0, i |-> 0]]
    /\ UNCHANGED <<lightboxVars, form, header>>

\* click on [data-timeline-collapse-all]
ClickCollapseAll ==
    /\ timeline.ready = "done"
    /\ timeline.collapseAllBtn
    /\ timeline.allClicks < MaxAllClicks
    /\ timeline' =
           [timeline EXCEPT
               !.items = [t \in DOMAIN timeline.items |->
                             [i \in DOMAIN timeline.items[t] |->
                                 CollapseItem(NewTimeline(timeline.items[t])[i])]],
               !.allClicks = timeline.allClicks + 1,
               !.last = [event |-> "collapseAll", t |-> 0, i |-> 0]]
    /\ UNCHANGED <<lightboxVars, form, header>>

\* A page without a gallery, a navigation menu or a lightbox.
NoGallery ==
    /\ gallery = << >>
    /\ InitLightbox
    /\ ready = "done"
    /\ overlayCount = 0
    /\ navInstalled = FALSE
    /\ navExpanded = "false"
    /\ navActive = FALSE

\* A timeline page as its markup gives it, before initTimelines() has run.
InitTimeline ==
    /\ NoGallery
    /\ form = "none"
    /\ header = "none"
    /\ \E items \in TimelinePages : \E ea \in BOOLEAN : \E ca \in BOOLEAN :
           timeline = [ready |-> "loading", items |-> items,
                       expandAllBtn |-> ea, collapseAllBtn |-> ca,
                       liveText |-> "", allClicks |-> 0,
                       last |-> [event |-> "markup", t |-> 0, i |-> 0]]

NextTimeline ==
    \/ InitTimelines
    \/ ClickHeader
    \/ KeyHeader
    \/ ClickExpandAll
    \/ ClickCollapseAll

\* The timeline page under user input.
SpecTimeline == InitTimeline /\ [][NextTimeline]_vars

\* ------------------------------------------------------------------ form
\* timeline.js, FormValidator: a form[data-validate] with named fields. A
\* value is the sequence of its characters. A field is a record:
\*   rules        the rules getValidationRules() derives, in order
\*   group        the .form-group input.closest() finds: a group number, or
\*                0 when the field has no such ancestor (closest gives null)
\*   value        input.value
\*   error        input.classList.contains('error')
\*   ariaInvalid  the input carries aria-invalid="true"
\* form.groups[g] is the sequence of texts of the .form-error elements of
\* group g, in document order.

Whitespace == {" "}

FieldValues == {<< >>, <<" ">>, <<"a", "b">>, <<"a", "@", "b", ".", "c">>}

\* value.trim() !== ''
NotBlank(v) == \E i \in 1..Len(v) : v[i] \notin Whitespace

\* /^[^\s@]+@[^\s@]+\.[^\s@]+$/.test(value)
EmailRegex(v) ==
    /\ \A i \in 1..Len(v) : v[i] \notin Whitespace
    /\ Cardinality({i \in 1..Len(v) : v[i] = "@"}) = 1
    /\ LET at == CHOOSE i \in 1..Len(v) : v[i] = "@"
       IN /\ at > 1
          /\ \E dot \in (at + 2)..(Len(v) - 1) : v[dot] = "."

\* rule.test(value) of the rules getValidationRules() builds
RuleTest(rule, v) ==
    CASE rule = "required" -> NotBlank(v)
      [] rule = "email" -> (v = << >>) \/ EmailRegex(v)
      [] rule = "minLength" -> (v = << >>) \/ Len(v) >= MinLengthAttr

RuleMessage(rule) ==
    CASE rule = "required" -> "This field is required"
      [] rule = "email" -> "Please enter a valid email address"
      [] rule = "minLength" ->
             "Must be at least " \o ToString(MinLengthAttr) \o " characters"

\* The rule lists of the fields of the pages: a required email input with a
\* minlength, and an optional input with a minlength.
FieldRules == {<<"required", "email", "minLength">>, <<"minLength">>}

\* validateField's loop: the first rule of the field that fails, "" when
\* none does.
RECURSIVE FirstFailing(_, _)
FirstFailing(rules, v) ==
    IF rules = << >> THEN ""
    ELSE IF ~RuleTest(Head(rules), v) THEN Head(rules)
    ELSE FirstFailing(Tail(rules), v)

\* existingError.remove() on formGroup.querySelector('.form-error'): the
\* first .form-error of the group, when there is one.
WithoutFirstError(errors) == IF errors = << >> THEN errors ELSE Tail(errors)

\* A showFieldError that appends without removing the message in place.
ShowFieldErrorAppends(dom, f, message) ==
    LET g == dom.fields[f].group
    IN IF g = 0
       THEN [dom EXCEPT !.fields[f].error = TRUE, !.threw = TRUE]
       ELSE [dom EXCEPT !.fields[f].error = TRUE,
                        !.fields[f].ariaInvalid = TRUE,
                        !.groups[g] = Append(dom.groups[g], message)]

\* showFieldError(field, message) on dom = [fields, groups, threw]: without
\* a .form-group, formGroup is null and formGroup.querySelector throws after
\* the class has been added.
ShowFieldError(dom, f, message) ==
    LET g == dom.fields[f].group
    IN IF g = 0
       THEN [dom EXCEPT !.fields[f].error = TRUE, !.threw = TRUE]
       ELSE [dom EXCEPT !.fields[f].error = TRUE,
                        !.fields[f].ariaInvalid = TRUE,
                        !.groups[g] = Append(WithoutFirstError(dom.groups[g]),
                                             message)]

\* clearFieldError(field): throws in the same way after removing the class.
ClearFieldError(dom, f) ==
    LET g == dom.fields[f].group
    IN IF g = 0
       THEN [dom EXCEPT !.fields[f].error = FALSE, !.threw = TRUE]
       ELSE [dom EXCEPT !.fields[f].error = FALSE,
                        !.fields[f].ariaInvalid = FALSE,
                        !.groups[g] = WithoutFirstError(dom.groups[g])]

\* validateField(field)
ValidateField(dom, f) ==
    LET failing == FirstFailing(dom.fields[f].rules, dom.fields[f].value)
    IN IF failing # "" THEN ShowFieldError(dom, f, RuleMessage(failing))
       ELSE ClearFieldError(dom, f)

\* validateAll(): validateField on every field in turn; an exception ends it.
RECURSIVE ValidateFrom(_, _)
ValidateFrom(dom, f) ==
    IF f > Len(dom.fields) \/ dom.threw THEN dom
    ELSE ValidateFrom(ValidateField(dom, f), f + 1)

ValidateAll(dom) == ValidateFrom(dom, 1)

Passes(field) == FirstFailing(field.rules, field.value) = ""

Dom == [fields |-> form.fields, groups |-> form.groups, threw |-> FALSE]

\* The state of the form after a handler that left dom behind.
FormAfter(dom, event, f) ==
    [form EXCEPT !.fields = dom.fields, !.groups = dom.groups,
                 !.last = [event |-> event, f |-> f, threw |-> dom.threw]]

\* The field that takes focus: the blur listener of the field that held it
\* runs validateField(field); an exception in the listener stays there.
BlurTo(dom, from, to) ==
    IF from \in 1..Len(dom.fields) /\ from # to
    THEN [ValidateField([dom EXCEPT !.threw = FALSE], from)
             EXCEPT !.threw = dom.threw]
    ELSE dom

\* The user moves focus to field `to`, or out of the form (0).
MoveFocus ==
    \E to \in 0..Len(form.fields) :
        /\ ~form.success
        /\ to # form.focus
        /\ form' = [FormAfter(BlurTo(Dom, form.focus, to), "blur", form.focus)
                       EXCEPT !.focus = to]
        /\ UNCHANGED <<lightboxVars, timeline, header>>

\* The user edits the focused field: the value changes and the input
\* listener runs clearFieldError(field).
Input ==
    \E f \in 1..Len(form.fields) : \E v \in FieldValues :
        /\ ~form.success
        /\ form.focus = f
        /\ v # form.fields[f].value
        /\ LET edited == [Dom EXCEPT !.fields[f].value = v]
           IN form' = FormAfter(ClearFieldError(edited, f), "input", f)
        /\ UNCHANGED <<lightboxVars, timeline, header>>

\* The first element of the form with class 'error', 0 when none.
FirstError(fields) ==
    IF \E f \in 1..Len(fields) : fields[f].error
    THEN CHOOSE f \in 1..Len(fields) :
             fields[f].error /\ \A k \in 1..(f - 1) : ~fields[k].error
    ELSE 0

\* submit: handleSubmit(e). preventDefault comes first; showSuccess()
\* replaces the form's content and focuses the message (-1); otherwise the
\* first .error element is focused, which blurs the field that held focus.
\* An exception from validateAll ends the handler.
Submit ==
    /\ ~form.success
    /\ LET dom == ValidateAll(Dom)
           isValid == \A f \in 1..Len(dom.fields) : Passes(dom.fields[f])
           firstError == FirstError(dom.fields)
       IN form' =
              IF dom.threw
              THEN [FormAfter(dom, "submit", 0) EXCEPT !.prevented = TRUE]
              ELSE IF isValid
              THEN [FormAfter(dom, "submit", 0) EXCEPT
                       !.prevented = TRUE, !.success = TRUE, !.focus = -1]
              ELSE IF firstError # 0
              THEN [FormAfter(BlurTo(dom, form.focus, firstError), "submit", 0)
                       EXCEPT !.prevented = TRUE, !.focus = firstError]
              ELSE [FormAfter(dom, "submit", 0) EXCEPT !.prevented = TRUE]
    /\ UNCHANGED <<lightboxVars, timeline, header>>

\* The group of field f under a layout: every field in a .form-group of its
\* own ("own"), all fields in one group ("shared"), or the last field
\* outside any .form-group ("ungrouped").
GroupOf(layout, f, n) ==
    CASE layout = "own" -> f
      [] layout = "shared" -> 1
      [] layout = "ungrouped" -> IF f = n THEN 0 ELSE f

Layouts == {"own", "shared", "ungrouped"}

\* The forms: 1..MaxFields named fields, empty and unmarked.
Forms ==
    UNION {{[f \in 1..n |->
                [rules |-> rules[f], group |-> GroupOf(layout, f, n),
                 value |-> << >>, error |-> FALSE, ariaInvalid |-> FALSE]] :
              layout \in Layouts, rules \in [1..n -> FieldRules]} :
           n \in 1..MaxFields}

\* A page with a validated form after initForms(): focus 0 is an element
\* outside the form, -1 the success message.
InitForm ==
    /\ NoGallery
    /\ timeline = "none"
    /\ header = "none"
    /\ \E fields \in Forms :
           form = [fields |-> fields,
                   groups |-> [g \in 1..MaxFields |-> << >>],
                   success |-> FALSE, prevented |-> FALSE, focus |-> 0,
                   last |-> [event |-> "init", f |-> 0, threw |-> FALSE]]

NextForm ==
    \/ MoveFocus
    \/ Input
    \/ Submit

\* The form page under user input.
SpecForm == InitForm /\ [][NextForm]_vars

\* ----------------------------------------------------------- page chrome
\* main.js on a page without a gallery: the mobile navigation and the
\* header's scroll effect. header is a record:
\*   scrollY    window.scrollY
\*   queued     a scroll event is waiting to be dispatched
\*   ticking    the closure variable `ticking`
\*   frames     animation-frame callbacks requested and not yet run
\*   boxShadow  header.style.boxShadow ("" while the script has not set it)
\*   handled    the scroll listener has run at least once

\* The scroll offset above which handleHeaderScroll() gives the shadow.
ShadowThreshold == 10

\* Everything but the navigation's own state, the focused element and the
\* records of the last step.
chromeFrame == <<gallery, images, currentIndex, isOpen,
                 focusedElementBeforeOpen, lbActive, prevDisplay, nextDisplay,
                 renderVars, detached, focusAtOpen, ready, overlayCount,
                 navInstalled, pending>>

\* The record of an event of the page chrome.
ChromeEvent(event) ==
    /\ hist' = [event |-> event, index |-> currentIndex, nav |-> prevDisplay,
                runOp |-> "none", runStart |-> currentIndex, runCount |-> 0]
    /\ announced' = FALSE

\* click on a link of the menu: the link's listener runs closeNav(); the
\* document's click listener finds the target inside navMenu.
ClickNavLink ==
    /\ Idle
    /\ navInstalled
    /\ CloseNav
    /\ activeElement' \in {"navLink", activeElement}
    /\ call' = NoArgs("closeNav")
    /\ ChromeEvent("clickNavLink")
    /\ UNCHANGED <<chromeFrame, widgetVars>>

\* click outside the menu and its button: the document's click listener
\* runs closeNav().
ClickOutside ==
    /\ Idle
    /\ navInstalled
    /\ CloseNav
    /\ activeElement' = "body"
    /\ call' = NoArgs("closeNav")
    /\ ChromeEvent("clickOutside")
    /\ UNCHANGED <<chromeFrame, widgetVars>>

\* Escape keydown: the document's keydown listener runs closeNav().
KeyEscapeNav ==
    /\ Idle
    /\ navInstalled
    /\ CloseNav
    /\ call' = NoArgs("closeNav")
    /\ ChromeEvent("escapeNav")
    /\ UNCHANGED <<chromeFrame, activeElement, widgetVars>>

\* A step of the header's scroll effect: the navigation is left alone.
HeaderStep(event) ==
    /\ ChromeEvent(event)
    /\ UNCHANGED <<chromeFrame, activeElement, call, navExpanded, navActive,
                   bodyOverflow, timeline, form>>

\* The window scrolls to another offset; the browser queues a scroll event.
Scroll ==
    \E y \in 0..MaxScrollY :
        /\ y # header.scrollY
        /\ header' = [header EXCEPT !.scrollY = y, !.queued = TRUE]
        /\ HeaderStep("scroll")

\* A listener that requests a frame on every scroll event.
RequestsFrameAlways(ticking) == TRUE

\* The test of the scroll listener: a frame is requested only when none is
\* pending.
RequestsFrame(ticking) == ~ticking

\* The scroll listener of initHeaderScroll.
ScrollListener ==
    /\ header.queued
    /\ header' = IF RequestsFrame(header.ticking)
                 THEN [header EXCEPT !.queued = FALSE, !.handled = TRUE,
                                     !.frames = header.frames + 1,
                                     !.ticking = TRUE]
                 ELSE [header EXCEPT !.queued = FALSE, !.handled = TRUE]
    /\ HeaderStep("scrollListener")

\* handleHeaderScroll(): the style it gives the header for the offset.
BoxShadowFor(y) ==
    IF y > ShadowThreshold THEN "0 2px 10px rgba(0, 0, 0, 0.1)" ELSE "none"

\* The animation-frame callback: handleHeaderScroll() on the offset at that
\* moment, then ticking = false.
FrameCallback ==
    /\ header.frames > 0
    /\ header' = [header EXCEPT !.boxShadow = BoxShadowFor(header.scrollY),
                                !.ticking = FALSE,
                                !.frames = header.frames - 1]
    /\ HeaderStep("frame")

\* A page with .nav-toggle, .nav-menu and .site-header after init(): the
\* menu closed, the button's aria-expanded absent or 'false', the window at
\* any offset.
InitChrome ==
    /\ gallery = << >>
    /\ InitLightbox
    /\ ready = "done"
    /\ overlayCount = 0
    /\ navInstalled = TRUE
    /\ navExpanded \in {"null", "false"}
    /\ navActive = FALSE
    /\ timeline = "none"
    /\ form = "none"
    /\ \E y \in 0..MaxScrollY :
           header = [scrollY |-> y, queued |-> FALSE, ticking |-> FALSE,
                     frames |-> 0, boxShadow |-> "", handled |-> FALSE]

NextChrome ==
    \/ ClickNavToggle
    \/ ClickNavLink
    \/ ClickOutside
    \/ KeyEscapeNav
    \/ Scroll
    \/ ScrollListener
    \/ FrameCallback

\* The page chrome under user input.
SpecChrome == InitChrome /\ [][NextChrome]_vars

\* The page chrome with the browser dispatching every queued scroll event
\* and running every requested animation-frame callback.
SpecChromeFair ==
    /\ SpecChrome
    /\ WF_vars(ScrollListener)
    /\ WF_vars(FrameCallback)

\* ---------------------------------------------------------------- claims
\* The overlay's buttons that are displayed.
VisibleControls ==
    {"close"} \cup (IF prevDisplay # "none" THEN {"prev"} ELSE {})
              \cup (IF nextDisplay # "none" THEN {"next"} ELSE {})

ValidIndex(imgs, k) == k \in 0..(Len(imgs) - 1)

\* C1: under open calls with a non-empty list and an index inside it, next,
\* prev and close, whenever the viewer is open and holds items, currentIndex
\* is an index of items.
IndexValidWhenOpen ==
    (isOpen /\ images # << >>) => ValidIndex(images, currentIndex)

\* C1 witness: next wrapped from the last item of a list of two or more to 0.
IndexWrappedByNext ==
    /\ isOpen
    /\ call.op = "next"
    /\ Len(images) >= 2
    /\ currentIndex = 0

\* C2: a valid open, from CLOSED or from OPEN, leaves the viewer open on the
\* supplied list at the supplied index with focus on the close button, and
\* every part of the viewer's state except the captured element is a
\* function of the arguments alone.
OpenInitializes ==
    call.op = "open" =>
        LET item == call.items[call.startIndex + 1]
            position == ToString(call.startIndex + 1) \o " of "
                        \o ToString(Len(call.items))
        IN /\ isOpen
           /\ lbActive
           /\ images = call.items
           /\ currentIndex = call.startIndex
           /\ activeElement = "close"
           /\ bodyOverflow = "hidden"
           /\ prevDisplay = (IF Len(call.items) >= 2 THEN "flex" ELSE "none")
           /\ nextDisplay = prevDisplay
           /\ lightboxImageSrc = item.src
           /\ lightboxImageAlt =
                  (IF item.alt = "" THEN "Image " \o position ELSE item.alt)
           /\ lightboxCaption = item.alt
           /\ liveRegionCount = 1
           /\ liveRegionText =
                  "Image " \o position \o ": "
                  \o (IF item.alt = "" THEN "No description" ELSE item.alt)
           /\ focusedElementBeforeOpen = focusAtOpen

\* C2 witness: open ran while the viewer was open on another list, at an
\* index other than 0.
ReopenedWhileOpen ==
    /\ call.op = "open"
    /\ call.wasOpen
    /\ call.startIndex > 0
    /\ focusAtOpen = "next"

\* C3: open with an empty list from CLOSED leaves the viewer closed, the
\* overlay hidden, scrolling enabled and focus where it was.
OpenEmptyStaysClosed ==
    (call.op = "open" /\ call.items = << >> /\ ~call.wasOpen) =>
        /\ ~isOpen
        /\ ~lbActive
        /\ bodyOverflow # "hidden"
        /\ activeElement = focusAtOpen

\* C4: open with a non-empty list and an index outside it shows item 0.
OpenOutOfRangeShowsFirst ==
    (call.op = "open" /\ call.items # << >>
        /\ ~ValidIndex(call.items, call.startIndex)) =>
        /\ currentIndex = 0
        /\ lightboxImageSrc = call.items[1].src
        /\ liveRegionText =
               "Image 1 of " \o ToString(Len(call.items)) \o ": "
               \o (IF call.items[1].alt = "" THEN "No description"
                   ELSE call.items[1].alt)

\* C5: activating a gallery entry opens the viewer at that entry's position
\* among the entries that hold an image, showing that entry's own image.
EntryOpensOwnImage ==
    call.entry # 0 =>
        /\ isOpen
        /\ currentIndex =
               Cardinality({j \in 1..(call.entry - 1) : gallery[j].img})
        /\ lightboxImageSrc = ImgSrc(call.entry)

\* C6: while the viewer is open, focus is on one of the overlay's displayed
\* buttons.
FocusStaysInOverlay ==
    isOpen => activeElement \in VisibleControls

\* The number of displayed buttons the claim names for the current list.
RingSize == IF Len(images) >= 2 THEN 3 ELSE 1

LastVisibleControl == IF nextDisplay # "none" THEN "next" ELSE "close"

\* C7: while open, as many forward Tab inputs as there are displayed buttons
\* bring focus back to the displayed button they started on, and Shift+Tab
\* on the close button moves focus to the last displayed button.
TabRingCloses ==
    /\ (isOpen /\ call.op = "tab" /\ call.tabCount = RingSize
            /\ call.tabStart \in VisibleControls)
        => activeElement = call.tabStart
    /\ (isOpen /\ call.op = "shiftTab" /\ call.tabStart = "close")
        => activeElement = LastVisibleControl

\* A close that ended an open viewer whose open was entered with focus on
\* an element.
ClosedAfterOpenFrom(el) ==
    /\ call.op = "close"
    /\ call.wasOpen
    /\ focusAtOpen = el
    /\ el \notin {"null", "body"}

\* C8 as stated: the close that follows an open returns focus to the
\* element focused before the open when that element is attached, and makes
\* no focus() call on it when it is detached.
CloseSkipsDetachedTarget ==
    \A el \in PageElements \cup OverlayControls :
        ClosedAfterOpenFrom(el) =>
            IF el \notin detached THEN activeElement = el
            ELSE call.focusCall # el

\* C8 amended: the close that follows an open returns focus to the element
\* focused before the open when that element is attached; when it is
\* detached close still calls focus() on it, and focus does not move to it.
CloseRestoresFocus ==
    \A el \in PageElements \cup OverlayControls :
        ClosedAfterOpenFrom(el) =>
            /\ call.focusCall = el
            /\ IF el \notin detached THEN activeElement = el
               ELSE activeElement # el

\* C8 witness: the viewer was closed after the element focused before the
\* open had been detached.
ClosedWithTargetDetached ==
    \E el \in PageElements : ClosedAfterOpenFrom(el) /\ el \in detached

\* C9: close() run while the viewer is closed changes neither isOpen, nor
\* the body's scroll setting, nor the focused element.
CloseWhenClosedChangesNothing ==
    [][(~isOpen /\ call'.op = "close") =>
            /\ isOpen' = isOpen
            /\ bodyOverflow' = bodyOverflow
            /\ activeElement' = activeElement]_vars

\* C10: every close(), the first as well as one that follows another close,
\* ends with the viewer closed, the overlay hidden and scrolling enabled, and
\* never calls focus() on null.
CloseIsIdempotent ==
    call.op = "close" =>
        /\ ~isOpen
        /\ ~lbActive
        /\ bodyOverflow = ""
        /\ call.focusCall # "null"

\* C10 witness: close ran on an already closed viewer that had been opened
\* before.
ClosedTwice ==
    /\ call.op = "close"
    /\ ~call.wasOpen
    /\ focusedElementBeforeOpen # "null"

\* C11: on a list of n >= 2 items with a valid index, next moves to the
\* following index and from the last to 0, prev moves to the preceding index
\* and from 0 to the last, and n consecutive calls of either bring
\* currentIndex back to where the run started.
NavigationIsCyclic ==
    LET n == Len(images)
    IN (hist.runOp # "none" /\ n >= 2 /\ ValidIndex(images, hist.index)) =>
           /\ hist.runOp = "next" =>
                  currentIndex = (IF hist.index = n - 1 THEN 0
                                  ELSE hist.index + 1)
           /\ hist.runOp = "prev" =>
                  currentIndex = (IF hist.index = 0 THEN n - 1
                                  ELSE hist.index - 1)
           /\ hist.runCount = n => currentIndex = hist.runStart

\* C11 witness: a run of n prev calls on a list of three or more items that
\* started in the middle of the list is complete.
PrevRunCompleted ==
    /\ hist.runOp = "prev"
    /\ Len(images) >= 3
    /\ hist.runCount = Len(images)
    /\ hist.runStart = 1

NavigationEvents == {"clickPrev", "clickNext", "arrowLeft", "arrowRight"}

\* C12: with a single item, a navigation input (the previous or next button,
\* the left or right key) changes neither currentIndex, nor the rendered
\* image, its label and caption, nor the live region, and announces nothing.
SingleItemNavigationIsNoOp ==
    [][(Len(images) = 1 /\ hist'.event \in NavigationEvents) =>
            /\ currentIndex' = currentIndex
            /\ lightboxImageSrc' = lightboxImageSrc
            /\ lightboxImageAlt' = lightboxImageAlt
            /\ lightboxCaption' = lightboxCaption
            /\ liveRegionText' = liveRegionText
            /\ liveRegionCount' = liveRegionCount
            /\ ~announced']_vars

\* C12 witness: the right key was pressed while the viewer was open on a
\* single rendered item.
RightKeyOnSingleItem ==
    /\ hist.event = "arrowRight"
    /\ call.wasOpen
    /\ Len(images) = 1
    /\ lightboxImageSrc = images[1].src

\* C13: in every state where the viewer is open the body's overflow is
\* 'hidden' (background scroll suppressed), and in the state right after
\* close() the body's overflow is back to '' (background scroll enabled).
ScrollSuppressedWhileOpen ==
    /\ isOpen => bodyOverflow = "hidden"
    /\ call.op = "close" => bodyOverflow = ""

\* C13 witness: the viewer is open on its second image, reached by
\* navigation, with the scroll still suppressed.
OpenAfterNavigation ==
    /\ isOpen
    /\ call.op \in {"next", "prev"}
    /\ hist.runCount = 2
    /\ bodyOverflow = "hidden"

\* C13 witness of the second half: close() ran on an open viewer.
ScrollRestoredByClose ==
    /\ call.op = "close" /\ call.wasOpen
    /\ bodyOverflow = ""

\* C14: while the viewer is open with a valid index, the displayed image is
\* the current item's source and its accessible label is the item's
\* description when it has one, otherwise "Image {currentIndex+1} of {n}".
OverlayInSync ==
    (isOpen /\ ValidIndex(images, currentIndex)) =>
        LET item == images[currentIndex + 1]
        IN /\ lightboxImageSrc = item.src
           /\ lightboxImageAlt =
                  (IF item.alt = ""
                   THEN "Image " \o ToString(currentIndex + 1) \o " of "
                        \o ToString(Len(images))
                   ELSE item.alt)

\* C14 witness: three described items opened at index 1, then next twice:
\* the second next wrapped to item 0, whose description is shown.
WrappedToFirstDescription ==
    /\ isOpen
    /\ Len(images) = 3
    /\ \A i \in 1..3 : images[i].alt # ""
    /\ hist.runOp = "next" /\ hist.runCount = 2 /\ hist.runStart = 1
    /\ currentIndex = 0
    /\ lightboxImageAlt = images[1].alt

\* C15: every open, and every next or prev on two or more items, announces,
\* and after an announcement the single live region holds exactly
\* "Image {currentIndex+1} of {n}: {description or 'No description'}" for the
\* current item and nothing of an earlier message.
LiveRegionHoldsLatest ==
    /\ (call.op = "open" \/ (call.op \in {"next", "prev"} /\ Len(images) >= 2))
           => announced
    /\ announced =>
           /\ liveRegionCount = 1
           /\ liveRegionText =
                  "Image " \o ToString(currentIndex + 1) \o " of "
                  \o ToString(Len(images)) \o ": "
                  \o (IF images[currentIndex + 1].alt = "" THEN "No description"
                      ELSE images[currentIndex + 1].alt)

\* C15 witness: a second announcement, made by prev for an item without a
\* description.
AnnouncedAgainWithoutDescription ==
    /\ announced
    /\ call.op = "prev"
    /\ images[currentIndex + 1].alt = ""
    /\ hist.runCount >= 1

\* C17: after every open the previous and next buttons are hidden when the
\* list has at most one item and shown when it has more.
NavShownByLength ==
    call.op = "open" =>
        /\ prevDisplay = (IF Len(call.items) <= 1 THEN "none" ELSE "flex")
        /\ nextDisplay = (IF Len(call.items) <= 1 THEN "none" ELSE "flex")

\* C17 witness: a list of two or more items was opened while the buttons
\* were hidden by an earlier single-item open.
MultiItemOpenAfterSingle ==
    /\ call.op = "open"
    /\ Len(call.items) >= 2
    /\ hist.nav = "none"
    /\ prevDisplay = "flex"

DismissalEvents == {"clickClose", "escape", "clickScrim"}

\* C18: a click on the close button, an Escape key and a click on the scrim
\* itself, each arriving while the viewer is open, leave it closed; a click
\* inside the overlay's content arriving while it is open leaves it open.
DismissalCloses ==
    /\ (hist.event \in DismissalEvents /\ call.wasOpen) =>
           (~isOpen /\ ~lbActive)
    /\ (hist.event = "clickContent" /\ call.wasOpen) =>
           (isOpen /\ lbActive)

\* C18 witness: the content of the open overlay, showing an image, was
\* clicked.
ContentClickedWhileOpen ==
    /\ hist.event = "clickContent"
    /\ call.wasOpen
    /\ isOpen
    /\ lightboxImageSrc # ""

\* C18 witness of Scenario C: Escape arrived while the viewer was open on
\* item 0 of 3.
EscapeOnFirstOfThree ==
    /\ hist.event = "escape"
    /\ call.wasOpen
    /\ Len(images) = 3
    /\ currentIndex = 0

\* C19: while the viewer is closed, no navigation input (left or right key,
\* previous or next button) changes currentIndex, the rendered image or the
\* live region or announces anything, and an Escape or Tab input changes no
\* state of the viewer; Escape leaves focus where it is.
NavigationOnlyWhileOpen ==
    [][(~isOpen /\ hist'.event \in NavigationEvents \cup {"escape", "tab", "shiftTab"}) =>
            /\ ~isOpen'
            /\ lbActive' = lbActive
            /\ images' = images
            /\ currentIndex' = currentIndex
            /\ lightboxImageSrc' = lightboxImageSrc
            /\ lightboxImageAlt' = lightboxImageAlt
            /\ lightboxCaption' = lightboxCaption
            /\ liveRegionText' = liveRegionText
            /\ liveRegionCount' = liveRegionCount
            /\ ~announced'
            /\ hist'.event = "escape" => activeElement' = activeElement]_vars

\* C16: from page load on, the document holds no overlay before the viewer
\* is constructed and exactly one afterwards, and at most one live region;
\* no step removes either or creates a second one.
OneOverlayOneLiveRegion ==
    [][/\ overlayCount' = (IF ready' = "done" THEN 1 ELSE 0)
       /\ overlayCount' >= overlayCount
       /\ liveRegionCount' <= 1
       /\ liveRegionCount' >= liveRegionCount
       /\ announced' => liveRegionCount' = 1]_vars

\* C16 witness: after page initialization the viewer was opened, closed and
\* opened again, each open announcing.
OpenedAgainAfterClose ==
    /\ ready = "done"
    /\ call.op = "open"
    /\ ~call.wasOpen
    /\ hist.nav # ""
    /\ announced
    /\ overlayCount = 1
    /\ liveRegionCount = 1

\* C20: on a page with the lightbox and the navigation menu, once an event's
\* handlers have all run, the body's overflow is 'hidden' whenever the
\* lightbox is open, and after a lightbox open or close an open menu still
\* has the body's overflow 'hidden'.
LightboxAndNavIndependent ==
    pending = "none" =>
        /\ isOpen => bodyOverflow = "hidden"
        /\ (navActive /\ call.op \in {"open", "close"}) =>
               bodyOverflow = "hidden"

\* The items with a header and a content element.
CompleteItems ==
    {p \in {<<t, i>> : t \in DOMAIN timeline.items, i \in 1..MaxItems} :
         /\ p[2] \in DOMAIN timeline.items[p[1]]
         /\ timeline.items[p[1]][p[2]].header
         /\ timeline.items[p[1]][p[2]].content}

\* C21: one activation of the header of a complete item flips the item:
\* the class 'active' of its content and the header's aria-expanded both
\* change to the opposite value.
ActivationFlipsOnce ==
    [][(timeline'.last.event = "activate"
            /\ <<timeline'.last.t, timeline'.last.i>> \in CompleteItems) =>
           LET before == timeline.items[timeline'.last.t][timeline'.last.i]
               after == timeline'.items[timeline'.last.t][timeline'.last.i]
           IN /\ after.active = ~before.active
              /\ (after.ariaExpanded = "true") = ~(before.ariaExpanded = "true")]_vars

\* C22: once initTimelines() has run, for every complete item whose markup
\* did not carry the class 'active', aria-expanded is 'true' exactly when
\* aria-hidden is 'false' and exactly when the content has class 'active'.
ProjectionsAgree ==
    timeline.ready = "done" =>
        \A p \in CompleteItems :
            LET it == timeline.items[p[1]][p[2]]
            IN ~it.startActive =>
                   /\ (it.ariaExpanded = "true") = (it.ariaHidden = "false")
                   /\ (it.ariaExpanded = "true") = it.active
                   /\ it.ariaExpanded \in {"true", "false"}
                   /\ it.ariaHidden \in {"true", "false"}

\* C22 witness: an item expanded by expand-all was collapsed again by an
\* activation of its header.
CollapsedAfterExpandAll ==
    /\ timeline.last.event = "activate"
    /\ timeline.allClicks > 0
    /\ timeline.expandAllBtn /\ ~timeline.collapseAllBtn
    /\ <<timeline.last.t, timeline.last.i>> \in CompleteItems
    /\ ~timeline.items[timeline.last.t][timeline.last.i].startActive
    /\ ~timeline.items[timeline.last.t][timeline.last.i].active

\* The fields that fail one of their rules.
FailingFields == {f \in 1..Len(form.fields) : ~Passes(form.fields[f])}

\* C23: after every submit the native submission has been prevented; the
\* success message is shown only when every field passes its rules; when a
\* field fails, no success message is shown, every failing field carries
\* the class 'error' and focus is on the first field carrying it.
SubmitValidatesAll ==
    form.last.event = "submit" =>
        /\ form.prevented
        /\ form.success => FailingFields = {}
        /\ FailingFields # {} =>
               /\ ~form.success
               /\ \A f \in FailingFields : form.fields[f].error
               /\ form.focus = FirstError(form.fields)
               /\ form.focus \in FailingFields

\* The fields that are alone in a .form-group.
OwnGroupFields ==
    {f \in 1..Len(form.fields) :
        /\ form.fields[f].group # 0
        /\ \A k \in 1..Len(form.fields) :
               k # f => form.fields[k].group # form.fields[f].group}

\* C24: for a field alone in its form group, the class 'error', the
\* attribute aria-invalid="true" and the presence of exactly one .form-error
\* in the group go together; the .form-error holds the message of the
\* field's first failing rule; the group never holds two; and after an
\* input event on the field none of the three is present.
ErrorProjectionsAgree ==
    \A f \in OwnGroupFields :
        LET field == form.fields[f]
            errors == form.groups[field.group]
        IN /\ field.error = field.ariaInvalid
           /\ field.error = (Len(errors) = 1)
           /\ Len(errors) <= 1
           /\ field.error =>
                  /\ ~Passes(field)
                  /\ errors[1] = RuleMessage(FirstFailing(field.rules, field.value))
           /\ (form.last.event = "input" /\ form.last.f = f) => ~field.error

\* C24 witness: a submit left a field that is alone in its group marked with
\* the message of the email rule while its value also fails the minlength
\* rule that comes later.
MarkedWithFirstFailingRule ==
    \E f \in OwnGroupFields :
        /\ form.last.event = "submit"
        /\ form.fields[f].error
        /\ form.fields[f].value = <<"a", "b">>
        /\ form.groups[form.fields[f].group] = <<"Please enter a valid email address">>
        /\ ~RuleTest("minLength", form.fields[f].value)

\* C25: after every event of the navigation the button's aria-expanded is
\* 'true' exactly when the menu has class 'active' and exactly when the
\* body's overflow is 'hidden'; a click on the button flips the menu; a
\* click on a link, a click outside and Escape leave it closed.
NavProjectionsAgree ==
    [][/\ (navExpanded' = "true") = navActive'
       /\ navActive' = (bodyOverflow' = "hidden")
       /\ hist'.event = "clickNavToggle" => navActive' = ~navActive
       /\ hist'.event \in {"clickNavLink", "clickOutside", "escapeNav"} =>
              ~navActive']_vars

\* C25 witness: Escape closed the menu that a click on the button, whose
\* aria-expanded was absent at first, had opened (the button kept focus).
MenuClosedByEscape ==
    /\ hist.event = "escapeNav"
    /\ activeElement = "navToggle"
    /\ navExpanded = "false"
    /\ ~navActive
    /\ bodyOverflow = ""

\* The header's shadow is the one handleHeaderScroll gives for the offset.
ShadowReflectsOffset == header.boxShadow = BoxShadowFor(header.scrollY)

\* C26: at most one animation-frame callback is pending at any time; a
\* queued scroll event is dispatched and a pending callback runs; and once
\* a scroll event has been handled and nothing is queued or pending, the
\* header's shadow is the one for the offset the window is at.
ScrollThrottled ==
    /\ [](header.frames <= 1)
    /\ [](header.ticking = (header.frames = 1))
    /\ [](header.queued => <>(~header.queued))
    /\ [](header.frames > 0 => <>(header.frames = 0))
    /\ []((header.handled /\ ~header.queued /\ header.frames = 0)
              => ShadowReflectsOffset)

\* C26 witness: a callback has run after the window scrolled past the
\* threshold; nothing is queued or pending and the header carries the
\* shadow.
ShadowAfterThrottledScroll ==
    /\ hist.event = "frame"
    /\ header.handled
    /\ ~header.queued
    /\ header.frames = 0
    /\ header.scrollY > ShadowThreshold
    /\ header.boxShadow # "none"

====
